---------------------------- MODULE Spec2Model ----------------------------
(***************************************************************************)
(* A model of the treasure-codes QR plate generator (generate_3d_qr.py).   *)
(*                                                                         *)
(* Lengths are exact rationals [n |-> numerator, d |-> denominator > 0] in *)
(* lowest terms: the geometry of the source is carried out exactly.  The   *)
(* rounding of IEEE doubles is modelled for get_dimensions, where a        *)
(* statement is about exact equality.  Strings the code inspects (the size *)
(* argument, the output path) are sequences of one-character strings.      *)
(***************************************************************************)
EXTENDS Integers, Sequences, FiniteSets, TLC

(***************************************************************************)
(* Bounds of the model.                                                    *)
(***************************************************************************)
MaxCoord == 1
MaxSize == 2
MaxLen == 3

(***************************************************************************)
(* Exact rational arithmetic (Python's +, -, *, / on real numbers).        *)
(***************************************************************************)
Abs(a) == IF a < 0 THEN -a ELSE a

RECURSIVE GCD(_, _)
GCD(a, b) == IF b = 0 THEN a ELSE GCD(b, a % b)

Rat(n, d) ==
    LET g == GCD(Abs(n), Abs(d))
        s == IF d < 0 THEN -1 ELSE 1
    IN  [n |-> s * (n \div g), d |-> Abs(d) \div g]

R(k) == [n |-> k, d |-> 1]

RAdd(a, b) == Rat(a.n * b.d + b.n * a.d, a.d * b.d)
RSub(a, b) == Rat(a.n * b.d - b.n * a.d, a.d * b.d)
RMul(a, b) == Rat(a.n * b.n, a.d * b.d)
RDiv(a, b) == Rat(a.n * b.d, a.d * b.n)
RNeg(a) == [n |-> -a.n, d |-> a.d]
RLe(a, b) == a.n * b.d <= b.n * a.d
RPos(a) == a.n > 0

(***************************************************************************)
(* create_box_triangles(x, y, z, width, depth, height): the eight corners  *)
(* v[0..7] and the twelve triangles, in the order of the source.           *)
(***************************************************************************)
box_vertices(x, y, z, width, depth, height) ==
    LET hw == RDiv(width, R(2))
        hd == RDiv(depth, R(2))
    IN  [k \in 0..7 |->
           CASE k = 0 -> <<RSub(x, hw), RSub(y, hd), z>>
             [] k = 1 -> <<RAdd(x, hw), RSub(y, hd), z>>
             [] k = 2 -> <<RAdd(x, hw), RAdd(y, hd), z>>
             [] k = 3 -> <<RSub(x, hw), RAdd(y, hd), z>>
             [] k = 4 -> <<RSub(x, hw), RSub(y, hd), RAdd(z, height)>>
             [] k = 5 -> <<RAdd(x, hw), RSub(y, hd), RAdd(z, height)>>
             [] k = 6 -> <<RAdd(x, hw), RAdd(y, hd), RAdd(z, height)>>
             [] k = 7 -> <<RSub(x, hw), RAdd(y, hd), RAdd(z, height)>>]

box_faces_swapped_top ==
    << <<0, 2, 1>>, <<0, 3, 2>>,
       <<4, 6, 5>>, <<4, 6, 7>>,
       <<0, 1, 5>>, <<0, 5, 4>>,
       <<2, 3, 7>>, <<2, 7, 6>>,
       <<0, 4, 7>>, <<0, 7, 3>>,
       <<1, 2, 6>>, <<1, 6, 5>> >>

box_faces ==
    << <<0, 2, 1>>, <<0, 3, 2>>,
       <<4, 5, 6>>, <<4, 6, 7>>,
       <<0, 1, 5>>, <<0, 5, 4>>,
       <<2, 3, 7>>, <<2, 7, 6>>,
       <<0, 4, 7>>, <<0, 7, 3>>,
       <<1, 2, 6>>, <<1, 6, 5>> >>

create_box_triangles(x, y, z, width, depth, height) ==
    LET v == box_vertices(x, y, z, width, depth, height)
    IN  [t \in 1..Len(box_faces) |->
           <<v[box_faces[t][1]], v[box_faces[t][2]], v[box_faces[t][3]]>>]

(***************************************************************************)
(* get_dimensions(qr_size_mm)                                              *)
(***************************************************************************)
get_dimensions(qr_size_mm) ==
    LET scale == RDiv(qr_size_mm, R(42))
    IN  [qr_size_mm       |-> qr_size_mm,
         margin           |-> RMul(R(2), scale),
         text_area_height |-> RMul(R(5), scale),
         corner_radius    |-> RMul(Rat(5, 2), scale),
         text_size        |-> RMul(Rat(21, 5), scale),
         text_y_offset    |-> RMul(Rat(9, 5), scale)]

(***************************************************************************)
(* IEEE 754 binary64, the float of the source, for the statements that are *)
(* about exact equality.  A double is [s, m, e] of value s * m * 2^e, with *)
(* s in {1, -1} and m a natural number of exactly MantissaBits bits (or 0). *)
(* m is wider than the integers of the checker, so naturals are sequences  *)
(* of limbs to the base 2^15, lowest limb first, without leading zeros.    *)
(* Every operation rounds to nearest, ties to even.  The exponent is not   *)
(* bounded: overflow and underflow are outside the sizes drawn below.      *)
(***************************************************************************)
MantissaBits == 53

RECURSIVE Pow2(_)
Pow2(k) == IF k = 0 THEN 1 ELSE 2 * Pow2(k - 1)

LimbBase == Pow2(15)

RECURSIVE BN(_)
BN(n) == IF n = 0 THEN <<>> ELSE <<n % LimbBase>> \o BN(n \div LimbBase)

RECURSIVE BNorm(_)
BNorm(a) ==
    IF a = <<>> THEN <<>>
    ELSE IF a[Len(a)] = 0 THEN BNorm(SubSeq(a, 1, Len(a) - 1))
    ELSE a

RECURSIVE BAddC(_, _, _)
BAddC(a, b, c) ==
    IF a = <<>> /\ b = <<>> THEN (IF c = 0 THEN <<>> ELSE <<c>>)
    ELSE LET x == IF a = <<>> THEN 0 ELSE Head(a)
             y == IF b = <<>> THEN 0 ELSE Head(b)
             t == x + y + c
         IN  <<t % LimbBase>>
                \o BAddC(IF a = <<>> THEN <<>> ELSE Tail(a),
                         IF b = <<>> THEN <<>> ELSE Tail(b),
                         t \div LimbBase)

BAdd(a, b) == BAddC(a, b, 0)

\* a - b for a >= b, before leading zeros are removed.
RECURSIVE BSubB(_, _, _)
BSubB(a, b, borrow) ==
    IF a = <<>> THEN <<>>
    ELSE LET y == IF b = <<>> THEN 0 ELSE Head(b)
             t == Head(a) - y - borrow
         IN  <<IF t < 0 THEN t + LimbBase ELSE t>>
                \o BSubB(Tail(a), IF b = <<>> THEN <<>> ELSE Tail(b),
                         IF t < 0 THEN 1 ELSE 0)

BSub(a, b) == BNorm(BSubB(a, b, 0))

\* -1, 0 or 1 as a < b, a = b or a > b.
RECURSIVE BCmpFrom(_, _, _)
BCmpFrom(a, b, k) ==
    IF k = 0 THEN 0
    ELSE IF a[k] < b[k] THEN -1
    ELSE IF a[k] > b[k] THEN 1
    ELSE BCmpFrom(a, b, k - 1)

BCmp(a, b) ==
    IF Len(a) < Len(b) THEN -1
    ELSE IF Len(a) > Len(b) THEN 1
    ELSE BCmpFrom(a, b, Len(a))

RECURSIVE BMulSmallC(_, _, _)
BMulSmallC(a, k, c) ==
    IF a = <<>> THEN BN(c)
    ELSE LET t == Head(a) * k + c
         IN  <<t % LimbBase>> \o BMulSmallC(Tail(a), k, t \div LimbBase)

\* a * k for 0 <= k <= LimbBase.
BMulSmall(a, k) == IF k = 0 THEN <<>> ELSE BMulSmallC(a, k, 0)

BShiftLimbs(a, n) == IF a = <<>> THEN <<>> ELSE [k \in 1..n |-> 0] \o a

RECURSIVE BMul(_, _)
BMul(a, b) ==
    IF b = <<>> THEN <<>>
    ELSE BAdd(BMulSmall(a, Head(b)), BShiftLimbs(BMul(a, Tail(b)), 1))

\* Quotient and remainder of a by k, 0 < k <= LimbBase, from the top limb down.
RECURSIVE BDivSmallFrom(_, _, _, _)
BDivSmallFrom(a, k, pos, rem) ==
    IF pos = 0 THEN [q |-> <<>>, r |-> rem]
    ELSE LET t    == rem * LimbBase + a[pos]
             rest == BDivSmallFrom(a, k, pos - 1, t % k)
         IN  [q |-> Append(rest.q, t \div k), r |-> rest.r]

BDivSmall(a, k) ==
    LET res == BDivSmallFrom(a, k, Len(a), 0)
    IN  [q |-> BNorm(res.q), r |-> res.r]

\* a * 2^n.
BShl(a, n) ==
    BShiftLimbs(BMulSmall(a, Pow2(n % 15)), n \div 15)

\* floor(a / 2^n), and whether a bit that is set was dropped.
BShr(a, n) ==
    LET limbs   == n \div 15
        dropped == SubSeq(a, 1, limbs)
        res     == BDivSmall(SubSeq(a, limbs + 1, Len(a)), Pow2(n % 15))
    IN  [q |-> res.q,
         sticky |-> res.r # 0 \/ \E k \in 1..Len(dropped) : dropped[k] # 0]

RECURSIVE SmallBitLen(_)
SmallBitLen(n) == IF n = 0 THEN 0 ELSE 1 + SmallBitLen(n \div 2)

BitLen(a) ==
    IF a = <<>> THEN 0 ELSE 15 * (Len(a) - 1) + SmallBitLen(a[Len(a)])

DZero == [s |-> 1, m |-> <<>>, e |-> 0]

\* The double nearest to s * (num / den) * 2^exp, ties to even: num a
\* natural number, 0 < den <= LimbBase.
RoundDouble(s, num, den, exp) ==
    IF num = <<>> THEN DZero
    ELSE LET need  == MantissaBits + 2 + SmallBitLen(den) - BitLen(num)
             k     == IF need > 0 THEN need ELSE 0
             div   == BDivSmall(BShl(num, k), den)
             drop  == BitLen(div.q) - (MantissaBits + 1)
             kept  == BShr(div.q, drop)
             half  == BDivSmall(kept.q, 2)
             inexact == kept.sticky \/ div.r # 0
             up    == half.r = 1 /\ (inexact \/ half.q[1] % 2 = 1)
             m1    == IF up THEN BAdd(half.q, BN(1)) ELSE half.q
             e1    == exp - k + drop + 1
         IN  IF BitLen(m1) > MantissaBits
             THEN [s |-> s, m |-> BDivSmall(m1, 2).q, e |-> e1 + 1]
             ELSE [s |-> s, m |-> m1, e |-> e1]

\* The double of a decimal literal or of float(str): the digits as an exact
\* rational (denominator a power of ten up to LimbBase), correctly rounded.
DoubleOf(r) ==
    RoundDouble(IF r.n < 0 THEN -1 ELSE 1, BN(Abs(r.n)), r.d, 0)

\* a * b and a / k (k a positive int) on doubles.
DMul(a, b) == RoundDouble(a.s * b.s, BMul(a.m, b.m), 1, a.e + b.e)

DDivInt(a, k) == RoundDouble(a.s, a.m, k, a.e)

DPos(a) == a.s = 1 /\ a.m # <<>>

\* get_dimensions on doubles, lines 83-93: every product and the quotient
\* are rounded as the interpreter rounds them.
get_dimensions_float64_unscaled_margin(qr_size_mm) ==
    LET scale == DDivInt(qr_size_mm, 42)
    IN  [qr_size_mm       |-> qr_size_mm,
         margin           |-> DoubleOf(R(2)),
         text_area_height |-> DMul(DoubleOf(R(5)), scale),
         corner_radius    |-> DMul(DoubleOf(Rat(5, 2)), scale),
         text_size        |-> DMul(DoubleOf(Rat(21, 5)), scale),
         text_y_offset    |-> DMul(DoubleOf(Rat(9, 5)), scale)]

get_dimensions_float64(qr_size_mm) ==
    LET scale == DDivInt(qr_size_mm, 42)
    IN  [qr_size_mm       |-> qr_size_mm,
         margin           |-> DMul(DoubleOf(R(2)), scale),
         text_area_height |-> DMul(DoubleOf(R(5)), scale),
         corner_radius    |-> DMul(DoubleOf(Rat(5, 2)), scale),
         text_size        |-> DMul(DoubleOf(Rat(21, 5)), scale),
         text_y_offset    |-> DMul(DoubleOf(Rat(9, 5)), scale)]

(***************************************************************************)
(* Strings as sequences of characters.                                     *)
(***************************************************************************)
S_small == <<"s", "m", "a", "l", "l">>
S_medium == <<"m", "e", "d", "i", "u", "m">>
S_large == <<"l", "a", "r", "g", "e">>
S_xlarge == <<"x", "l", "a", "r", "g", "e">>
S_tiny == <<"t", "i", "n", "y">>

Digits == <<"0", "1", "2", "3", "4", "5", "6", "7", "8", "9">>
IsDigit(c) == \E i \in 1..Len(Digits) : Digits[i] = c
DigitVal(c) == (CHOOSE i \in 1..Len(Digits) : Digits[i] = c) - 1

RECURSIVE Pow10(_)
Pow10(k) == IF k = 0 THEN 1 ELSE 10 * Pow10(k - 1)

RECURSIVE int_of_digits(_)
int_of_digits(s) ==
    IF s = <<>> THEN 0
    ELSE 10 * int_of_digits(SubSeq(s, 1, Len(s) - 1)) + DigitVal(s[Len(s)])

(***************************************************************************)
(* float(s) for a string s: an optional sign, then digits with at most one *)
(* decimal point and at least one digit.  Anything else is a ValueError.   *)
(* (Exponents, inf/nan, underscores and blanks are outside the alphabet of *)
(* the strings drawn below.)                                               *)
(***************************************************************************)
float(s) ==
    LET signed == Len(s) > 0 /\ s[1] \in {"-", "+"}
        body   == IF signed THEN Tail(s) ELSE s
        dots   == {i \in 1..Len(body) : body[i] = "."}
        wellformed ==
            /\ \A i \in 1..Len(body) : IsDigit(body[i]) \/ body[i] = "."
            /\ Cardinality(dots) <= 1
            /\ \E i \in 1..Len(body) : IsDigit(body[i])
        dot    == IF dots = {} THEN Len(body) + 1 ELSE CHOOSE i \in dots : TRUE
        ipart  == SubSeq(body, 1, dot - 1)
        fpart  == SubSeq(body, dot + 1, Len(body))
        mag    == RAdd(R(int_of_digits(ipart)),
                       Rat(int_of_digits(fpart), Pow10(Len(fpart))))
    IN  IF wellformed
        THEN [exc |-> "none",
              val |-> IF signed /\ s[1] = "-" THEN RNeg(mag) ELSE mag]
        ELSE [exc |-> "ValueError", val |-> R(0)]

(***************************************************************************)
(* SIZE_PRESETS and parse_size(size_arg).  The result records the value    *)
(* returned, the exception that left the function ("none" if it returned)  *)
(* and whether the "Unknown size" line was printed.                        *)
(***************************************************************************)
SIZE_PRESETS ==
    (S_small :> 40) @@ (S_medium :> 50) @@ (S_large :> 55) @@ (S_xlarge :> 60)

parse_size_uncaught(size_arg) ==
    IF size_arg \in DOMAIN SIZE_PRESETS
    THEN [value |-> R(SIZE_PRESETS[size_arg]), raised |-> "none", printed |-> FALSE]
    ELSE LET f == float(size_arg)
         IN  [value |-> f.val, raised |-> f.exc, printed |-> FALSE]

parse_size(size_arg) ==
    IF size_arg \in DOMAIN SIZE_PRESETS
    THEN [value |-> R(SIZE_PRESETS[size_arg]), raised |-> "none", printed |-> FALSE]
    ELSE LET f == float(size_arg)
         IN  IF f.exc = "none"
             THEN [value |-> f.val, raised |-> "none", printed |-> FALSE]
             ELSE IF f.exc = "ValueError"
             THEN [value |-> R(50), raised |-> "none", printed |-> TRUE]
             ELSE [value |-> R(0), raised |-> f.exc, printed |-> FALSE]

(***************************************************************************)
(* Output paths and str.endswith.                                          *)
(***************************************************************************)
EXT_STL == <<".", "s", "t", "l">>
EXT_3MF == <<".", "3", "m", "f">>

endswith(s, suffix) ==
    /\ Len(s) >= Len(suffix)
    /\ SubSeq(s, Len(s) - Len(suffix) + 1, Len(s)) = suffix

\* generate, lines 602-604: the extension is appended unless one is there.
ensure_extension(output_file) ==
    IF ~(endswith(output_file, EXT_STL) \/ endswith(output_file, EXT_3MF))
    THEN output_file \o EXT_3MF
    ELSE output_file

\* generate, lines 607-615: the generators table and its lookup.
generators_ignore_style(file_type, style) ==
    IF file_type = "stl" THEN "combined" ELSE "multicolor"

generators(file_type, style) ==
    CASE file_type = "stl" /\ style = "raised" -> "combined"
      [] file_type = "stl" /\ style = "inlay"  -> "combined"
      [] file_type = "3mf" /\ style = "raised" -> "multicolor"
      [] file_type = "3mf" /\ style = "inlay"  -> "inlay"

file_type_of(output_file) ==
    IF endswith(output_file, EXT_STL) THEN "stl" ELSE "3mf"

(***************************************************************************)
(* Meshes.  A mesh holds the triangles built by create_box_triangles and   *)
(* the solids tessellated by the CAD kernel; of a kernel solid the model   *)
(* keeps what the call fixes (footprint, Z interval, radius) and the       *)
(* number of triangles the kernel produced for it.                         *)
(***************************************************************************)
EmptyMesh == [tris |-> <<>>, parts |-> <<>>]

BoxMesh(triangles) == [tris |-> triangles, parts |-> <<>>]

PartMesh(part) == [tris |-> <<>>, parts |-> <<part>>]

\* trimesh.util.concatenate / np.concatenate of two meshes
concatenate(m1, m2) ==
    [tris |-> m1.tris \o m2.tris, parts |-> m1.parts \o m2.parts]

RECURSIVE PartFaces(_)
PartFaces(parts) ==
    IF parts = <<>> THEN 0 ELSE parts[1].ntris + PartFaces(Tail(parts))

NumFaces(m) == Len(m.tris) + PartFaces(m.parts)

\* cq.Workplane("XY").box(w, d, h).edges("|Z").fillet(r).translate((0, 0, dz)):
\* a box centred on the origin, moved up by dz.
cq_rounded_box(w, d, h, r, dz, n) ==
    [kind |-> "rounded_box", w |-> w, d |-> d, cy |-> R(0),
     zlo |-> RSub(dz, RDiv(h, R(2))), zhi |-> RAdd(dz, RDiv(h, R(2))),
     r |-> r, ntris |-> n]

\* cq.Workplane("XY").workplane(offset=z).center(0, text_y).text(s, size, h)
cq_text(z, text_y, size, h, n) ==
    [kind |-> "text", w |-> R(0), d |-> size, cy |-> text_y,
     zlo |-> z, zhi |-> RAdd(z, h), r |-> R(0), ntris |-> n]

\* Line 427: how far the green top layer of the inlay generator is moved up.
green_top_translate_z_as_base(base_height, inlay_height) ==
    RDiv(inlay_height, R(2))

green_top_translate_z(base_height, inlay_height) ==
    RAdd(base_height, RDiv(inlay_height, R(2)))

\* `except Exception` of the text blocks: every failure of the kernel, of the
\* temp file and of the loader is an Exception.
except_Exception_none(failure) == FALSE

except_Exception(failure) == failure \in {"text", "export", "load"}

(***************************************************************************)
(* Layout of a generator: lines 105-108, 202-205, 385-388.                 *)
(***************************************************************************)
total_height_without_text_band(dims) ==
    RAdd(dims.qr_size_mm, RMul(R(2), dims.margin))

total_height_of(dims) ==
    RAdd(RAdd(dims.text_area_height, dims.qr_size_mm), RMul(R(2), dims.margin))

total_width_of(dims) == RAdd(dims.qr_size_mm, RMul(R(2), dims.margin))

pixel_size_of(dims, qr_array) == RDiv(dims.qr_size_mm, R(Len(qr_array)))

(***************************************************************************)
(* One iteration of the QR placement loop for cell (i, j), 0-based: the    *)
(* triangles it appends (none for a 0 cell).                               *)
(***************************************************************************)
cell_x(qr_array, j, pixel_size) ==
    RMul(RSub(R(j), RDiv(R(Len(qr_array[1])), R(2))), pixel_size)

cell_y(qr_array, i, pixel_size, qr_offset_y) ==
    RAdd(RMul(RSub(RDiv(R(Len(qr_array)), R(2)), R(i)), pixel_size), qr_offset_y)

square_triangles_every_cell(qr_array, i, j, dims, z, height) ==
    LET pixel_size  == pixel_size_of(dims, qr_array)
        qr_offset_y == RDiv(RNeg(dims.text_area_height), R(2))
        square_size == RMul(pixel_size, Rat(19, 20))
    IN  create_box_triangles(cell_x(qr_array, j, pixel_size),
                             cell_y(qr_array, i, pixel_size, qr_offset_y),
                             z, square_size, square_size, height)

square_triangles(qr_array, i, j, dims, z, height) ==
    LET pixel_size  == pixel_size_of(dims, qr_array)
        qr_offset_y == RDiv(RNeg(dims.text_area_height), R(2))
        square_size == RMul(pixel_size, Rat(19, 20))
    IN  IF qr_array[i + 1][j + 1] = 1
        THEN create_box_triangles(cell_x(qr_array, j, pixel_size),
                                  cell_y(qr_array, i, pixel_size, qr_offset_y),
                                  z, square_size, square_size, height)
        ELSE <<>>

text_y_of(dims) ==
    RSub(RSub(RDiv(total_height_of(dims), R(2)),
              RDiv(dims.text_area_height, R(2))),
         dims.text_y_offset)

(***************************************************************************)
(* The packaged archive: mesh_to_3mf_xml and the model XML, lines 277-367. *)
(***************************************************************************)
mesh_to_3mf_xml_same_index(mesh_obj, object_id) ==
    [f \in 1..NumFaces(mesh_obj) |-> [pid |-> 1, p1 |-> 0]]

\* One <triangle> per face, each with pid="1" and p1 = object_id - 1.
mesh_to_3mf_xml(mesh_obj, object_id) ==
    [f \in 1..NumFaces(mesh_obj) |-> [pid |-> 1, p1 |-> object_id - 1]]

model_xml(base_mesh, qr_mesh, name) ==
    [basematerials |-> [id |-> 1,
                        bases |-> << [name |-> "Green", displaycolor |-> "#00AA00"],
                                     [name |-> "White", displaycolor |-> "#FFFFFF"] >>],
     objects |-> << [id |-> 1, name |-> "base_green",
                     triangles |-> mesh_to_3mf_xml(base_mesh, 1)],
                    [id |-> 2, name |-> "qr_white",
                     triangles |-> mesh_to_3mf_xml(qr_mesh, 2)] >>,
     composite |-> [id |-> 3, name |-> name, components |-> <<1, 2>>],
     build |-> <<3>>]

zip_entries ==
    {"[Content_Types].xml", "_rels/.rels", "3D/3dmodel.model",
     "Metadata/model_settings.config"}

VARIABLES
    \* the harness around create_box_triangles
    box_pc, box_in, box_out,
    \* the harness around parse_size and get_dimensions
    size_pc, size_arg, size_out, dims_out,
    dims_float,          \* get_dimensions of the parsed size, in doubles
    \* one run of generate, or of a generator called directly
    pc,                  \* where the run stands
    call,                \* the call made: function and arguments
    CADQUERY_AVAILABLE,  \* lines 19-23: whether cadquery could be imported
    kernel_faces,        \* the triangles the kernel's tessellation gives a solid
    output_file, qr_size_mm, base_height, pattern_height, text_height,
    generator,           \* the generator running: combined, multicolor, inlay
    invoked,             \* the generators generate has invoked, in order
    qr_array, dims, total_width, total_height,
    i, j,                \* the indices of the QR placement loop
    all_triangles, square_count,     \* combined
    base_mesh, qr_triangles, qr_mesh,
    tempfiles,           \* the temp files that exist
    temp_count,          \* the temp files created so far
    stdout,              \* the warnings and result lines printed
    output,              \* what was written to output_file
    raised,              \* the exception that left the generator, or "none"
    text_result,         \* how the text block ended
    \* one run of the batch driver generate_all.py
    batch_pc,            \* where the driver stands
    attempted,           \* the indices create_3d_qr_code was called for, in order
    outcomes,            \* how each of those calls ended: ok or raise
    batch_stdout         \* what the driver has printed

box_vars == <<box_pc, box_in, box_out>>
size_vars == <<size_pc, size_arg, size_out, dims_out, dims_float>>
in_vars == <<call, CADQUERY_AVAILABLE, kernel_faces>>
arg_vars == <<output_file, qr_size_mm, base_height, pattern_height, text_height,
              generator, invoked>>
lay_vars == <<qr_array, dims, total_width, total_height>>
loop_vars == <<i, j>>
mesh_vars == <<all_triangles, square_count, base_mesh, qr_triangles, qr_mesh>>
temp_vars == <<tempfiles, temp_count>>
batch_vars == <<batch_pc, attempted, outcomes, batch_stdout>>
run_vars == <<pc, in_vars, arg_vars, lay_vars, loop_vars, mesh_vars, temp_vars,
              stdout, output, raised, text_result>>
vars == <<box_vars, size_vars, run_vars, batch_vars>>

NoDims == get_dimensions(R(0))
NoDimsFloat == get_dimensions_float64(DZero)
NoSize == [value |-> R(0), raised |-> "none", printed |-> FALSE]
NoModel == model_xml(EmptyMesh, EmptyMesh, "")
NoOutput ==
    [kind |-> "none", path |-> <<>>, mesh |-> EmptyMesh, entries |-> {},
     model |-> NoModel]
NoCall ==
    [fn |-> "none", url |-> <<>>, output_file |-> <<>>, size |-> <<>>, style |-> "raised",
     qr_size_mm |-> R(0), base_height |-> R(0), pattern_height |-> R(0),
     text_height |-> R(0)]

BoxIdle == box_pc = "idle" /\ box_in = <<>> /\ box_out = <<>>
SizeIdle ==
    /\ size_pc = "idle" /\ size_arg = <<>> /\ size_out = NoSize
    /\ dims_out = NoDims /\ dims_float = NoDimsFloat

\* The state of a run before its first step.
RunFresh ==
    /\ output_file = <<>> /\ qr_size_mm = R(0)
    /\ base_height = R(0) /\ pattern_height = R(0) /\ text_height = R(0)
    /\ generator = "none" /\ invoked = <<>>
    /\ qr_array = <<>> /\ dims = NoDims
    /\ total_width = R(0) /\ total_height = R(0)
    /\ i = 0 /\ j = 0
    /\ all_triangles = EmptyMesh /\ square_count = 0
    /\ base_mesh = EmptyMesh /\ qr_triangles = <<>> /\ qr_mesh = EmptyMesh
    /\ tempfiles = {} /\ temp_count = 0
    /\ stdout = <<>> /\ output = NoOutput
    /\ raised = "none" /\ text_result = "pending"

RunIdle ==
    /\ pc = "idle" /\ call = NoCall
    /\ CADQUERY_AVAILABLE = FALSE /\ kernel_faces = 0
    /\ RunFresh

BatchIdle ==
    /\ batch_pc = "idle"
    /\ attempted = <<>> /\ outcomes = <<>> /\ batch_stdout = <<>>

(***************************************************************************)
(* SpecBox: create_box_triangles applied to arbitrary arguments.           *)
(***************************************************************************)
Coords == {Rat(n, d) : n \in -MaxCoord..MaxCoord, d \in 1..2}
Sizes == {Rat(n, d) : n \in 1..MaxSize, d \in 1..2}

BoxInit ==
    /\ box_pc = "call"
    /\ box_in \in [x : Coords, y : Coords, z : Coords,
                   width : Sizes, depth : Sizes, height : Sizes]
    /\ box_out = <<>>
    /\ SizeIdle
    /\ RunIdle
    /\ BatchIdle

BoxCall ==
    /\ box_pc = "call"
    /\ box_out' = create_box_triangles(box_in.x, box_in.y, box_in.z,
                                       box_in.width, box_in.depth, box_in.height)
    /\ box_pc' = "done"
    /\ UNCHANGED <<box_in, size_vars, run_vars, batch_vars>>

SpecBox == BoxInit /\ [][BoxCall]_vars

(***************************************************************************)
(* SpecSize: parse_size applied to a string, get_dimensions to its result. *)
(***************************************************************************)
SizeAlphabet == {"4", "5", ".", "-", "x"}

RECURSIVE StringsUpTo(_)
StringsUpTo(k) ==
    IF k = 0 THEN {<<>>}
    ELSE LET shorter == StringsUpTo(k - 1)
         IN  shorter \cup {Append(s, c) : s \in shorter, c \in SizeAlphabet}

SizeArgs ==
    StringsUpTo(MaxLen) \cup {S_small, S_medium, S_large, S_xlarge, S_tiny}

SizeInit ==
    /\ size_pc = "parse"
    /\ size_arg \in SizeArgs
    /\ size_out = NoSize
    /\ dims_out = NoDims
    /\ dims_float = NoDimsFloat
    /\ BoxIdle
    /\ RunIdle
    /\ BatchIdle

ParseSizeCall ==
    /\ size_pc = "parse"
    /\ size_out' = parse_size(size_arg)
    /\ size_pc' = IF size_out'.raised = "none" THEN "dims" ELSE "raised"
    /\ UNCHANGED <<size_arg, dims_out, dims_float, box_vars, run_vars, batch_vars>>

GetDimensionsCall ==
    /\ size_pc = "dims"
    /\ dims_out' = get_dimensions(size_out.value)
    /\ dims_float' = get_dimensions_float64(DoubleOf(size_out.value))
    /\ size_pc' = "done"
    /\ UNCHANGED <<size_arg, size_out, box_vars, run_vars, batch_vars>>

SizeNext == ParseSizeCall \/ GetDimensionsCall

SpecSize == SizeInit /\ [][SizeNext]_vars

(***************************************************************************)
(* Spec: one run of generate(url, output_file, size, style), or of one of  *)
(* the three generators called directly.  The QR encoder and the CAD       *)
(* kernel are outside the repository: the bitmap the encoder returns, the  *)
(* number of triangles of a kernel solid and whether a kernel step raises  *)
(* are chosen nondeterministically.                                        *)
(***************************************************************************)
MaxN == 2
MaxKernelFaces == 2

P_a == <<"a">>
P_stl == <<"s", "t", "l">>
Paths == {P_a \o EXT_STL, P_a \o EXT_3MF, P_a, P_stl}
Styles == {"raised", "inlay"}

\* The square bitmaps of side 1..MaxN with at least one dark cell.
Bitmaps ==
    UNION {{b \in [1..n -> [1..n -> {0, 1}]] :
               \E r \in 1..n : \E c \in 1..n : b[r][c] = 1} : n \in 1..MaxN}

\* generate_qr_code and qr_to_array, lines 36-56: the bitmap is a function of
\* the url alone.  The encoder is a library; the model names a url by the
\* bitmap it encodes to.
Urls == Bitmaps
U_diag == << <<1, 0>>, <<0, 1>> >>
qr_to_array(url) == url

GenerateCall(url, f, size, style) ==
    [fn |-> "generate", url |-> url, output_file |-> f, size |-> size,
     style |-> style, qr_size_mm |-> R(0), base_height |-> R(0),
     pattern_height |-> R(0), text_height |-> R(0)]

\* A generator called with its own arguments (qr_size_mm, base_height,
\* qr_height or inlay_height, text_height).
DirectCall(g, url, f, q, bh, ph, th) ==
    [fn |-> g, url |-> url, output_file |-> f, size |-> <<>>, style |-> "raised",
     qr_size_mm |-> q, base_height |-> bh, pattern_height |-> ph,
     text_height |-> th]

\* Every path, size and style on one url; every url on one call of each
\* generator.
Calls ==
    {GenerateCall(U_diag, f, size, st) :
        f \in Paths, size \in {S_medium, <<"4", "2">>, S_tiny}, st \in Styles}
    \cup {GenerateCall(u, P_a \o EXT_3MF, S_medium, st) : u \in Urls, st \in Styles}
    \cup {DirectCall("combined", u, P_a \o EXT_STL, R(42), R(2), R(1), Rat(1, 2)) :
             u \in Urls}
    \cup {DirectCall("multicolor", U_diag, P_a \o EXT_3MF, R(42), R(2), R(1),
                     Rat(1, 2)),
          DirectCall("inlay", U_diag, P_a \o EXT_3MF, R(60), R(1), Rat(1, 4), R(0))}

\* The default arguments of the generators: lines 96, 189, 372.
DefaultHeights(g) ==
    IF g = "inlay"
    THEN [base_height |-> Rat(9, 5), pattern_height |-> Rat(3, 5),
          text_height |-> R(0)]
    ELSE [base_height |-> Rat(9, 5), pattern_height |-> Rat(9, 10),
          text_height |-> Rat(6, 5)]

\* The names src/generate_3d_qr.py binds at module level.  The try of lines
\* 19-23 binds cq only when cadquery can be imported.
ModuleNames(cadquery_importable) ==
    {"os", "hashlib", "qrcode", "Image", "np", "mesh",
     "CADQUERY_AVAILABLE", "OUTPUT_DIR", "SIZE_PRESETS", "generate_qr_code",
     "qr_to_array", "create_box_triangles", "get_dimensions",
     "create_3d_qr_code_combined", "create_3d_qr_code_multicolor",
     "create_3d_qr_code_inlay", "parse_size", "generate"}
    \cup (IF cadquery_importable THEN {"cq"} ELSE {})

\* generate_all.py, lines 11-16: the list of urls, each named by its place.
urls == <<1, 2, 3, 4>>

\* A call of generate or of a generator.
CallInit ==
    /\ pc = "start"
    /\ call \in Calls
    /\ CADQUERY_AVAILABLE \in BOOLEAN
    /\ kernel_faces \in IF CADQUERY_AVAILABLE THEN 1..MaxKernelFaces ELSE {0}
    /\ RunFresh
    /\ BatchIdle

\* The batch driver generate_all.py started as a script: nothing has been
\* attempted or printed, and its first statement is the import of line 7.
BatchInit ==
    /\ batch_pc = "import"
    /\ attempted = <<>>
    /\ outcomes = <<>>
    /\ batch_stdout = <<>>
    /\ pc = "idle"
    /\ call = NoCall
    /\ CADQUERY_AVAILABLE \in BOOLEAN
    /\ kernel_faces = 0
    /\ RunFresh

Init ==
    /\ CallInit \/ BatchInit
    /\ BoxIdle
    /\ SizeIdle

\* generate_all.py, line 7: from generate_3d_qr import create_3d_qr_code.
\* The module is executed (lines 19-23 set CADQUERY_AVAILABLE) and the name is
\* looked up in it: a name the module does not bind raises ImportError, which
\* nothing catches, so generate_all (lines 18-46) is never entered.
BatchImport ==
    /\ batch_pc = "import"
    /\ batch_pc' = IF "create_3d_qr_code" \in ModuleNames(CADQUERY_AVAILABLE)
                   THEN "main" ELSE "import_error"
    /\ UNCHANGED <<attempted, outcomes, batch_stdout, box_vars, size_vars,
                   run_vars>>

\* generate, lines 593-615, up to the call of the generator.
Generate ==
    /\ pc = "start"
    /\ call.fn = "generate"
    /\ LET ps == parse_size(call.size)
           f  == ensure_extension(call.output_file)
           g  == generators(file_type_of(f), call.style)
       IN  /\ qr_size_mm' = ps.value
           /\ stdout' = IF ps.printed THEN Append(stdout, "unknown_size") ELSE stdout
           /\ output_file' = f
           /\ generator' = g
           /\ invoked' = Append(invoked, g)
           /\ base_height' = DefaultHeights(g).base_height
           /\ pattern_height' = DefaultHeights(g).pattern_height
           /\ text_height' = DefaultHeights(g).text_height
           /\ raised' = ps.raised
           /\ pc' = IF ps.raised = "none" THEN "qr" ELSE "raised"
    /\ UNCHANGED <<in_vars, lay_vars, loop_vars, mesh_vars, temp_vars, output,
                   text_result, box_vars, size_vars, batch_vars>>

\* generate, line 617, after the generator returned.
GenerateReturn ==
    /\ pc = "returned"
    /\ call.fn = "generate"
    /\ stdout' = Append(stdout, "open_in_bambu")
    /\ pc' = "done"
    /\ UNCHANGED <<in_vars, arg_vars, lay_vars, loop_vars, mesh_vars, temp_vars,
                   output, raised, text_result, box_vars, size_vars, batch_vars>>

\* A generator called directly, with its own arguments.
CallGenerator ==
    /\ pc = "start"
    /\ call.fn # "generate"
    /\ generator' = call.fn
    /\ output_file' = call.output_file
    /\ qr_size_mm' = call.qr_size_mm
    /\ base_height' = call.base_height
    /\ pattern_height' = call.pattern_height
    /\ text_height' = call.text_height
    /\ pc' = "qr"
    /\ UNCHANGED <<in_vars, invoked, lay_vars, loop_vars, mesh_vars, temp_vars,
                   stdout, output, raised, text_result, box_vars, size_vars, batch_vars>>

\* Lines 101-108, 198-205, 381-388: the bitmap and the layout.
GenerateQR ==
    /\ pc = "qr"
    /\ qr_array' = qr_to_array(call.url)
    /\ dims' = get_dimensions(qr_size_mm)
    /\ total_height' = total_height_of(dims')
    /\ total_width' = total_width_of(dims')
    /\ pc' = "base"
    /\ UNCHANGED <<in_vars, arg_vars, loop_vars, mesh_vars, temp_vars, stdout,
                   output, raised, text_result, box_vars, size_vars, batch_vars>>

(***************************************************************************)
(* A solid fetched from the kernel through a temp file: build, create the  *)
(* temp file, export, load, unlink.  failure names the step that raised.   *)
(***************************************************************************)
KernelFailures == {"build", "export", "load"}

\* The temp file exists from NamedTemporaryFile to os.unlink: a failure of
\* export or load leaves it behind.
TempAfter(failure) ==
    /\ temp_count' = IF failure = "build" THEN temp_count ELSE temp_count + 1
    /\ tempfiles' = IF failure \in {"export", "load"}
                    THEN tempfiles \cup {temp_count + 1}
                    ELSE tempfiles

\* No handler encloses the base and top-layer blocks: the exception leaves
\* the generator.
Propagate(site, failure) ==
    /\ raised' = site
    /\ pc' = "raised"
    /\ TempAfter(failure)

\* Lines 114-135.
Combined_Base ==
    /\ pc = "base"
    /\ generator = "combined"
    /\ \/ /\ CADQUERY_AVAILABLE
          /\ all_triangles' =
                PartMesh(cq_rounded_box(total_width, total_height, base_height,
                                        dims.corner_radius,
                                        RDiv(base_height, R(2)),
                                        kernel_faces))
          /\ TempAfter("none")
          /\ pc' = "loop"
          /\ UNCHANGED raised
       \/ /\ CADQUERY_AVAILABLE
          /\ \E failure \in KernelFailures : Propagate("base", failure)
          /\ UNCHANGED all_triangles
       \/ /\ ~CADQUERY_AVAILABLE
          /\ all_triangles' =
                BoxMesh(create_box_triangles(R(0), R(0), R(0), total_width,
                                             total_height, base_height))
          /\ pc' = "loop"
          /\ UNCHANGED <<temp_vars, raised>>
    /\ i' = 0 /\ j' = 0 /\ square_count' = 0
    /\ UNCHANGED <<in_vars, arg_vars, lay_vars, base_mesh, qr_triangles, qr_mesh,
                   stdout, output, text_result, box_vars, size_vars, batch_vars>>

\* Lines 210-230 (multicolor) and 393-414 (inlay): the same block.
Packaged_Base ==
    /\ pc = "base"
    /\ generator \in {"multicolor", "inlay"}
    /\ \/ /\ CADQUERY_AVAILABLE
          /\ base_mesh' =
                PartMesh(cq_rounded_box(total_width, total_height, base_height,
                                        dims.corner_radius,
                                        RDiv(base_height, R(2)),
                                        kernel_faces))
          /\ TempAfter("none")
          /\ pc' = IF generator = "inlay" THEN "top" ELSE "loop"
          /\ UNCHANGED raised
       \/ /\ CADQUERY_AVAILABLE
          /\ \E failure \in KernelFailures : Propagate("base", failure)
          /\ UNCHANGED base_mesh
       \/ /\ ~CADQUERY_AVAILABLE
          /\ base_mesh' =
                BoxMesh(create_box_triangles(R(0), R(0), R(0), total_width,
                                             total_height, base_height))
          /\ pc' = IF generator = "inlay" THEN "top" ELSE "loop"
          /\ UNCHANGED <<temp_vars, raised>>
    /\ qr_triangles' = <<>>
    /\ UNCHANGED <<in_vars, arg_vars, lay_vars, loop_vars, all_triangles,
                   square_count, qr_mesh, stdout, output, text_result,
                   box_vars, size_vars, batch_vars>>

\* Lines 421-442: the full green top layer of the inlay generator.
Inlay_Top ==
    /\ pc = "top"
    /\ generator = "inlay"
    /\ \/ /\ CADQUERY_AVAILABLE
          /\ base_mesh' =
                concatenate(base_mesh,
                    PartMesh(cq_rounded_box(total_width, total_height,
                                            pattern_height, dims.corner_radius,
                                            green_top_translate_z(base_height,
                                                                  pattern_height),
                                            kernel_faces)))
          /\ TempAfter("none")
          /\ pc' = "loop"
          /\ UNCHANGED raised
       \/ /\ CADQUERY_AVAILABLE
          /\ \E failure \in KernelFailures : Propagate("top", failure)
          /\ UNCHANGED base_mesh
       \/ /\ ~CADQUERY_AVAILABLE
          /\ base_mesh' =
                concatenate(base_mesh,
                    BoxMesh(create_box_triangles(R(0), R(0), base_height,
                                                 total_width, total_height,
                                                 pattern_height)))
          /\ pc' = "loop"
          /\ UNCHANGED <<temp_vars, raised>>
    /\ UNCHANGED <<in_vars, arg_vars, lay_vars, loop_vars, all_triangles,
                   square_count, qr_triangles, qr_mesh, stdout, output,
                   text_result, box_vars, size_vars, batch_vars>>

\* The loop counters after the iteration for cell (i, j).
NextCell ==
    /\ j' = IF j + 1 < Len(qr_array[1]) THEN j + 1 ELSE 0
    /\ i' = IF j + 1 < Len(qr_array[1]) THEN i ELSE i + 1

\* Lines 142-149: one iteration of the loop of the combined generator.
Combined_Cell ==
    /\ pc = "loop"
    /\ generator = "combined"
    /\ i < Len(qr_array)
    /\ LET sq == square_triangles(qr_array, i, j, dims, base_height, pattern_height)
       IN  /\ all_triangles' = [all_triangles EXCEPT !.tris = @ \o sq]
           /\ square_count' = IF qr_array[i + 1][j + 1] = 1
                              THEN square_count + 1 ELSE square_count
    /\ NextCell
    /\ UNCHANGED <<pc, in_vars, arg_vars, lay_vars, base_mesh, qr_triangles,
                   qr_mesh, temp_vars, stdout, output, raised, text_result,
                   box_vars, size_vars, batch_vars>>

\* Lines 239-245 (multicolor) and 447-453 (inlay, into white_triangles).
Packaged_Cell ==
    /\ pc = "loop"
    /\ generator \in {"multicolor", "inlay"}
    /\ i < Len(qr_array)
    /\ qr_triangles' =
          qr_triangles \o
             square_triangles(qr_array, i, j, dims, base_height, pattern_height)
    /\ NextCell
    /\ UNCHANGED <<pc, in_vars, arg_vars, lay_vars, all_triangles, square_count,
                   base_mesh, qr_mesh, temp_vars, stdout, output, raised,
                   text_result, box_vars, size_vars, batch_vars>>

\* Lines 151-160: the loop is over, the mesh of all triangles is built.
Combined_Mesh ==
    /\ pc = "loop"
    /\ generator = "combined"
    /\ i = Len(qr_array)
    /\ qr_mesh' = all_triangles
    /\ pc' = "text"
    /\ UNCHANGED <<in_vars, arg_vars, lay_vars, loop_vars, all_triangles,
                   square_count, base_mesh, qr_triangles, temp_vars, stdout,
                   output, raised, text_result, box_vars, size_vars, batch_vars>>

\* Lines 247-253 and 455-463: the loop is over, the pattern mesh is built.
Packaged_Mesh ==
    /\ pc = "loop"
    /\ generator \in {"multicolor", "inlay"}
    /\ i = Len(qr_array)
    /\ qr_mesh' = BoxMesh(qr_triangles)
    /\ pc' = "text"
    /\ UNCHANGED <<in_vars, arg_vars, lay_vars, loop_vars, all_triangles,
                   square_count, base_mesh, qr_triangles, temp_vars, stdout,
                   output, raised, text_result, box_vars, size_vars, batch_vars>>

StlOutput(m) ==
    [kind |-> "stl", path |-> output_file, mesh |-> m, entries |-> {},
     model |-> NoModel]

\* The text solid of the running generator: lines 167-169, 260-262, 470-472.
TextPart(n) ==
    cq_text(base_height, text_y_of(dims), dims.text_size,
            IF generator = "inlay" THEN pattern_height ELSE text_height, n)

TextFailures == {"text", "export", "load"}

\* Lines 162-186: the text block of the combined generator, which also saves.
Combined_Text ==
    /\ pc = "text"
    /\ generator = "combined"
    /\ \/ /\ CADQUERY_AVAILABLE
          /\ output' = StlOutput(concatenate(qr_mesh, PartMesh(TextPart(kernel_faces))))
          /\ stdout' = Append(stdout, "created_with_text")
          /\ text_result' = "added"
          /\ temp_count' = temp_count + 1
          /\ pc' = "returned"
          /\ UNCHANGED <<tempfiles, raised>>
       \/ /\ CADQUERY_AVAILABLE
          /\ \E failure \in TextFailures :
                /\ text_result' = failure
                /\ temp_count' = IF failure = "text" THEN temp_count
                                 ELSE temp_count + 1
                /\ tempfiles' = IF failure = "text" THEN tempfiles
                                ELSE tempfiles \cup {temp_count + 1}
                /\ IF except_Exception(failure)
                   THEN /\ stdout' = Append(stdout, "warning_text")
                        /\ output' = StlOutput(qr_mesh)
                        /\ pc' = "returned"
                        /\ UNCHANGED raised
                   ELSE /\ raised' = "text"
                        /\ pc' = "raised"
                        /\ UNCHANGED <<stdout, output>>
       \/ /\ ~CADQUERY_AVAILABLE
          /\ output' = StlOutput(qr_mesh)
          /\ stdout' = Append(stdout, "created")
          /\ text_result' = "skipped"
          /\ pc' = "returned"
          /\ UNCHANGED <<temp_vars, raised>>
    /\ UNCHANGED <<in_vars, arg_vars, lay_vars, loop_vars, mesh_vars,
                   box_vars, size_vars, batch_vars>>

\* Lines 255-273 (multicolor) and 465-483 (inlay): the text block.
Packaged_Text ==
    /\ pc = "text"
    /\ generator \in {"multicolor", "inlay"}
    /\ \/ /\ CADQUERY_AVAILABLE
          /\ qr_mesh' = concatenate(qr_mesh, PartMesh(TextPart(kernel_faces)))
          /\ text_result' = "added"
          /\ temp_count' = temp_count + 1
          /\ pc' = "write"
          /\ UNCHANGED <<tempfiles, raised, stdout>>
       \/ /\ CADQUERY_AVAILABLE
          /\ \E failure \in TextFailures :
                /\ text_result' = failure
                /\ temp_count' = IF failure = "text" THEN temp_count
                                 ELSE temp_count + 1
                /\ tempfiles' = IF failure = "text" THEN tempfiles
                                ELSE tempfiles \cup {temp_count + 1}
                /\ IF except_Exception(failure)
                   THEN /\ stdout' = Append(stdout, "warning_text")
                        /\ pc' = "write"
                        /\ UNCHANGED raised
                   ELSE /\ raised' = "text"
                        /\ pc' = "raised"
                        /\ UNCHANGED stdout
                /\ UNCHANGED qr_mesh
       \/ /\ ~CADQUERY_AVAILABLE
          /\ text_result' = "skipped"
          /\ pc' = "write"
          /\ UNCHANGED <<temp_vars, raised, stdout, qr_mesh>>
    /\ UNCHANGED <<in_vars, arg_vars, lay_vars, loop_vars, all_triangles,
                   square_count, base_mesh, qr_triangles, output,
                   box_vars, size_vars, batch_vars>>

\* Lines 275-369 (multicolor) and 485-579 (inlay): the archive is written.
Packaged_Write ==
    /\ pc = "write"
    /\ generator \in {"multicolor", "inlay"}
    /\ output' =
          [kind |-> "3mf", path |-> output_file, mesh |-> EmptyMesh,
           entries |-> zip_entries,
           model |-> model_xml(base_mesh, qr_mesh,
                               IF generator = "inlay" THEN "treasure_qr_inlay"
                               ELSE "treasure_qr")]
    /\ stdout' = Append(stdout, "created_3mf")
    /\ pc' = "returned"
    /\ UNCHANGED <<in_vars, arg_vars, lay_vars, loop_vars, mesh_vars, temp_vars,
                   raised, text_result, box_vars, size_vars, batch_vars>>

Next ==
    \/ Generate
    \/ GenerateReturn
    \/ CallGenerator
    \/ GenerateQR
    \/ Combined_Base
    \/ Packaged_Base
    \/ Inlay_Top
    \/ Combined_Cell
    \/ Packaged_Cell
    \/ Combined_Mesh
    \/ Packaged_Mesh
    \/ Combined_Text
    \/ Packaged_Text
    \/ Packaged_Write
    \/ BatchImport

Spec == Init /\ [][Next]_vars

(***************************************************************************)
(* Vector helpers for the statements about triangles.                      *)
(***************************************************************************)
VSub(a, b) == <<RSub(a[1], b[1]), RSub(a[2], b[2]), RSub(a[3], b[3])>>

Cross(a, b) ==
    <<RSub(RMul(a[2], b[3]), RMul(a[3], b[2])),
      RSub(RMul(a[3], b[1]), RMul(a[1], b[3])),
      RSub(RMul(a[1], b[2]), RMul(a[2], b[1]))>>

Normal(tri) == Cross(VSub(tri[2], tri[1]), VSub(tri[3], tri[1]))

\* The prism [x-width/2, x+width/2] x [y-depth/2, y+depth/2] x [z, z+height].
PrismLo(b) ==
    <<RSub(b.x, RDiv(b.width, R(2))), RSub(b.y, RDiv(b.depth, R(2))), b.z>>
PrismHi(b) ==
    <<RAdd(b.x, RDiv(b.width, R(2))), RAdd(b.y, RDiv(b.depth, R(2))),
      RAdd(b.z, b.height)>>

\* Triangle tri lies on the face of the prism [lo, hi] that is normal to axis,
\* on the low (side = -1) or high (side = 1) end.
OnFace(tri, lo, hi, axis, side) ==
    LET plane == IF side = 1 THEN hi[axis] ELSE lo[axis]
    IN  /\ \A k \in 1..3 : tri[k][axis] = plane
        /\ \A k \in 1..3 : \A a \in 1..3 :
              RLe(lo[a], tri[k][a]) /\ RLe(tri[k][a], hi[a])

\* The normal (v2-v1) x (v3-v1) of tri points along axis, towards side.
Outward(tri, axis, side) ==
    LET n == Normal(tri)
    IN  /\ \A a \in (1..3) \ {axis} : n[a] = R(0)
        /\ IF side = 1 THEN RPos(n[axis]) ELSE RPos(RNeg(n[axis]))

BoxCoordsOf(tris, axis) ==
    {tris[t][k][axis] : t \in 1..Len(tris), k \in 1..3}

\* C1: create_box_triangles returns exactly 12 triangles, two on each of the
\* six faces of the prism [x-width/2, x+width/2] x [y-depth/2, y+depth/2] x
\* [z, z+height]; the bounding box of the vertices is that prism; and every
\* triangle's normal (v2-v1) x (v3-v1) points out of the prism.
C1_BoxClosedOutward ==
    box_pc = "done" =>
        LET lo == PrismLo(box_in)
            hi == PrismHi(box_in)
        IN  /\ Len(box_out) = 12
            /\ \A axis \in 1..3 : \A side \in {-1, 1} :
                  Cardinality({t \in 1..Len(box_out) :
                                  OnFace(box_out[t], lo, hi, axis, side)}) = 2
            /\ \A t \in 1..Len(box_out) : \E axis \in 1..3 : \E side \in {-1, 1} :
                  OnFace(box_out[t], lo, hi, axis, side)
                     /\ Outward(box_out[t], axis, side)
            /\ \A axis \in 1..3 :
                  LET cs == BoxCoordsOf(box_out, axis)
                  IN  /\ lo[axis] \in cs
                      /\ hi[axis] \in cs
                      /\ \A c \in cs : RLe(lo[axis], c) /\ RLe(c, hi[axis])

C1_Witness ==
    /\ box_pc = "done"
    /\ Len(box_out) = 12
    /\ box_in.width # box_in.depth
    /\ box_in.depth # box_in.height
    /\ box_in.x.n < 0
    /\ box_in.z.n > 0

(***************************************************************************)
(* Helpers of the statements about a run.                                  *)
(***************************************************************************)
Cells(arr) == (0..(Len(arr) - 1)) \X (0..(Len(arr) - 1))

\* The dark cells the loop has visited when its counters stand at (i0, j0).
DarkBefore(arr, i0, j0) ==
    {c \in Cells(arr) :
        /\ arr[c[1] + 1][c[2] + 1] = 1
        /\ c[1] < i0 \/ (c[1] = i0 /\ c[2] < j0)}

Dark(arr) == DarkBefore(arr, Len(arr), 0)

\* The triangles of the base in the list of the combined generator.
BaseFaces == IF CADQUERY_AVAILABLE THEN kernel_faces ELSE 12

ZOf(tris) == {tris[t][k][3] : t \in 1..Len(tris), k \in 1..3}

RAbs(a) == [n |-> Abs(a.n), d |-> a.d]

Within(a, b, tol) == RLe(RAbs(RSub(a, b)), tol)

AfterLayout == pc \in {"base", "top", "loop", "text", "write", "returned", "done"}

Returned == pc \in {"returned", "done"}

\* C2: the QR placement loop of each generator emits one box (12 triangles)
\* per dark cell and none for a light cell: at every step of the loop the
\* pattern triangles number 12 times the dark cells visited so far, and when
\* the loop is over, before any text is added, 12 times the dark cells.
C2_PatternCount ==
    /\ (pc = "loop" /\ generator = "combined") =>
          /\ NumFaces(all_triangles) - BaseFaces
                = 12 * Cardinality(DarkBefore(qr_array, i, j))
          /\ square_count = Cardinality(DarkBefore(qr_array, i, j))
    /\ (pc = "loop" /\ generator \in {"multicolor", "inlay"}) =>
          Len(qr_triangles) = 12 * Cardinality(DarkBefore(qr_array, i, j))
    /\ (pc = "text" /\ generator = "combined") =>
          NumFaces(qr_mesh) - BaseFaces = 12 * Cardinality(Dark(qr_array))
    /\ (pc = "text" /\ generator \in {"multicolor", "inlay"}) =>
          NumFaces(qr_mesh) = 12 * Cardinality(Dark(qr_array))

C2_Witness ==
    /\ pc = "loop"
    /\ generator = "multicolor"
    /\ qr_array = << <<1, 0>>, <<1, 1>> >>
    /\ i = 1 /\ j = 1
    /\ Len(qr_triangles) = 24

\* The reference constants of get_dimensions, as the decimals of the source.
ReferenceConstants ==
    [qr_size_mm |-> R(42), margin |-> R(2), text_area_height |-> R(5),
     corner_radius |-> Rat(5, 2), text_size |-> Rat(21, 5),
     text_y_offset |-> Rat(9, 5)]

\* The double get_dimensions is called with: the value parse_size returned.
SizeDouble == DoubleOf(size_out.value)

\* |field - c * q / 42| <= 2^-(MantissaBits - 2) * c * q / 42 in exact
\* arithmetic, for a positive double field, a positive double q and a
\* positive rational c: cleared of denominators,
\* |field * 42 * c.d - c.n * q| * 2^(MantissaBits - 2) <= c.n * q.
WithinRounding(field, c, q) ==
    LET e0   == IF field.e < q.e THEN field.e ELSE q.e
        lhs  == BShl(BMulSmall(field.m, 42 * c.d), field.e - e0)
        rhs  == BShl(BMulSmall(q.m, c.n), q.e - e0)
        diff == IF BCmp(lhs, rhs) >= 0 THEN BSub(lhs, rhs) ELSE BSub(rhs, lhs)
    IN  BCmp(BShl(diff, MantissaBits - 2), rhs) <= 0

\* C3 as stated: for qr_size_mm > 0 the six fields of get_dimensions are
\* strictly positive and each exactly equal to its reference constant (42,
\* 2, 5, 2.5, 4.2, 1.8) multiplied by qr_size_mm / 42, the product and the
\* quotient evaluated as the program evaluates them, in doubles.
C3_Original ==
    (size_pc = "done" /\ RPos(size_out.value)) =>
        \A f \in DOMAIN ReferenceConstants :
            /\ DPos(dims_float[f])
            /\ dims_float[f] = DMul(DoubleOf(ReferenceConstants[f]),
                                    DDivInt(SizeDouble, 42))

\* C3, amended: for qr_size_mm > 0 get_dimensions returns six strictly
\* positive fields; qr_size_mm is returned unchanged; and each field equals
\* its reference constant times qr_size_mm / 42 up to the rounding of double
\* arithmetic: its relative distance from the exact product is at most
\* 2^-51.
C3_DimensionsScaleRounded ==
    (size_pc = "done" /\ RPos(size_out.value)) =>
        /\ DOMAIN dims_float = DOMAIN ReferenceConstants
        /\ dims_float.qr_size_mm = SizeDouble
        /\ \A f \in DOMAIN ReferenceConstants :
              /\ DPos(dims_float[f])
              /\ WithinRounding(dims_float[f], ReferenceConstants[f], SizeDouble)

\* The size 54: 42 * (54 / 42) is not 54 in doubles, while the field
\* qr_size_mm is 54 and the margin is 2 * 54 / 42 up to rounding.
C3_Witness ==
    /\ size_pc = "done"
    /\ size_arg = <<"5", "4">>
    /\ DMul(DoubleOf(R(42)), DDivInt(SizeDouble, 42)) # SizeDouble
    /\ dims_float.qr_size_mm = SizeDouble
    /\ DPos(dims_float.margin)
    /\ WithinRounding(dims_float.margin, R(2), SizeDouble)
    /\ ~WithinRounding(dims_float.margin, R(5), SizeDouble)

\* C4 as stated: for qr_size_mm = 50 in the raised packaged generator,
\* total_width is 54 mm and total_height is 64.95 mm, each to within 1 mm.
C4_Original ==
    (generator = "multicolor" /\ qr_size_mm = R(50) /\ AfterLayout) =>
        /\ Within(total_width, R(54), R(1))
        /\ Within(total_height, Rat(6495, 100), R(1))

\* C4 amended: for qr_size_mm = 50 in the raised packaged generator,
\* total_width = qr_size_mm + 2*margin = 1150/21 (54.76) mm, within 1 mm of
\* 54, and total_height = text band + qr_size_mm + 2*margin = 425/7 (60.71)
\* mm, within 1 mm of 60.71.
C4_PlateSize50 ==
    (generator = "multicolor" /\ qr_size_mm = R(50) /\ AfterLayout) =>
        /\ dims.margin = Rat(100, 42)
        /\ dims.text_area_height = Rat(250, 42)
        /\ total_width = Rat(1150, 21)
        /\ total_height = Rat(425, 7)
        /\ Within(total_width, R(54), R(1))
        /\ Within(total_height, Rat(6071, 100), R(1))

C4_Witness ==
    /\ generator = "multicolor"
    /\ call.fn = "generate"
    /\ call.size = S_medium
    /\ qr_size_mm = R(50)
    /\ pc = "done"
    /\ total_height = Rat(425, 7)

\* The Z interval of the green top layer of the inlay generator: the second
\* solid of the base mesh, from the kernel or from create_box_triangles.
TopLayerZ ==
    IF CADQUERY_AVAILABLE
    THEN {base_mesh.parts[2].zlo, base_mesh.parts[2].zhi}
    ELSE ZOf(SubSeq(base_mesh.tris, 13, 24))

\* C5: in the inlay generator the green top layer and every pattern box
\* occupy the Z interval [base_height, base_height + inlay_height]: the top of
\* every pattern box is base_height + inlay_height, the top of the layer.
C5_InlayFlush ==
    (generator = "inlay" /\ pc \in {"loop", "text", "write", "returned", "done"}) =>
        LET top == RAdd(base_height, pattern_height)
        IN  /\ TopLayerZ = {base_height, top}
            /\ Len(qr_triangles) % 12 = 0
            /\ \A b \in 1..(Len(qr_triangles) \div 12) :
                  ZOf(SubSeq(qr_triangles, 12 * (b - 1) + 1, 12 * b))
                     = {base_height, top}

C5_Witness ==
    /\ generator = "inlay"
    /\ pc = "returned"
    /\ CADQUERY_AVAILABLE
    /\ base_height = R(1)
    /\ pattern_height = Rat(1, 4)
    /\ Len(qr_triangles) = 24
    /\ base_mesh.parts[2].zhi = Rat(5, 4)

\* C6: the model XML of both packaged generators declares exactly two
\* materials, Green #00AA00 at index 0 and White #FFFFFF at index 1; every
\* triangle has pid = the id of the materials resource, every triangle of the
\* base object p1 = 0 and every triangle of the pattern object p1 = 1.
C6_Materials ==
    output.kind = "3mf" =>
        LET m == output.model
        IN  /\ m.basematerials.bases =
                  << [name |-> "Green", displaycolor |-> "#00AA00"],
                     [name |-> "White", displaycolor |-> "#FFFFFF"] >>
            /\ Len(m.objects) = 2
            /\ m.objects[1].name = "base_green"
            /\ m.objects[2].name = "qr_white"
            /\ Len(m.objects[1].triangles) = NumFaces(base_mesh)
            /\ Len(m.objects[2].triangles) = NumFaces(qr_mesh)
            /\ \A o \in 1..2 : \A t \in 1..Len(m.objects[o].triangles) :
                  /\ m.objects[o].triangles[t].pid = m.basematerials.id
                  /\ m.objects[o].triangles[t].p1 = o - 1
                  /\ m.objects[o].triangles[t].p1 + 1
                        \in 1..Len(m.basematerials.bases)

C6_Witness ==
    /\ output.kind = "3mf"
    /\ generator = "inlay"
    /\ text_result = "added"
    /\ Len(output.model.objects[1].triangles) = 2 * kernel_faces
    /\ Len(output.model.objects[2].triangles) = 24 + kernel_faces

\* C7: generate invokes exactly one generator: a path ending in neither .stl
\* nor .3mf gets .3mf appended; a path ending in .stl runs the combined
\* generator whatever the style; a path ending in .3mf runs the raised
\* packaged generator for style raised and the inlay one for style inlay.
C7_Routing ==
    call.fn = "generate" =>
        LET p == call.output_file
            f == IF endswith(p, EXT_STL) \/ endswith(p, EXT_3MF)
                 THEN p ELSE p \o EXT_3MF
            expected == IF endswith(f, EXT_STL) THEN "combined"
                        ELSE IF call.style = "raised" THEN "multicolor"
                        ELSE "inlay"
        IN  IF pc = "start"
            THEN invoked = <<>>
            ELSE /\ invoked = <<expected>>
                 /\ generator = expected
                 /\ output_file = f
                 /\ output.kind # "none" => output.path = f

C7_Witness ==
    /\ call.fn = "generate"
    /\ call.output_file = P_stl
    /\ call.style = "inlay"
    /\ invoked = <<"inlay">>
    /\ pc = "done"
    /\ output.path = P_stl \o EXT_3MF

\* The characters of s without its sign and its decimal point.
DigitsOf(s) == SelectSeq(s, IsDigit)

IsNumber(s) ==
    LET body == IF Len(s) > 0 /\ s[1] = "-" THEN Tail(s) ELSE s
    IN  /\ Len(DigitsOf(body)) >= 1
        /\ Len(body) - Len(DigitsOf(body)) <= 1
        /\ \A k \in 1..Len(body) : IsDigit(body[k]) \/ body[k] = "."

\* The digits of s that follow its decimal point.
FractionDigits(s) ==
    IF \E k \in 1..Len(s) : s[k] = "."
    THEN Len(s) - (CHOOSE k \in 1..Len(s) : s[k] = ".")
    ELSE 0

\* C8: parse_size never raises for a string: a preset name returns its table
\* value (small 40, medium 50, large 55, xlarge 60), a string that parses as
\* a number returns that number, and any other string (such as tiny) returns
\* 50 after printing a warning.
C8_ParseSize ==
    size_pc # "parse" =>
        /\ size_pc # "raised"
        /\ size_out.raised = "none"
        /\ size_arg = S_small => size_out.value = R(40) /\ ~size_out.printed
        /\ size_arg = S_medium => size_out.value = R(50) /\ ~size_out.printed
        /\ size_arg = S_large => size_out.value = R(55) /\ ~size_out.printed
        /\ size_arg = S_xlarge => size_out.value = R(60) /\ ~size_out.printed
        /\ (size_arg \notin {S_small, S_medium, S_large, S_xlarge}
               /\ IsNumber(size_arg)) =>
              /\ ~size_out.printed
              /\ RMul(RAbs(size_out.value), R(Pow10(FractionDigits(size_arg))))
                    = R(int_of_digits(DigitsOf(size_arg)))
              /\ (size_out.value.n < 0) =>
                    (size_arg[1] = "-")
              /\ (size_arg[1] = "-") => (size_out.value.n <= 0)
        /\ (size_arg \notin {S_small, S_medium, S_large, S_xlarge}
               /\ ~IsNumber(size_arg)) =>
              /\ size_out.value = R(50)
              /\ size_out.printed

C8_Witness ==
    /\ size_pc = "done"
    /\ size_arg = S_tiny
    /\ size_out.value = R(50)
    /\ size_out.printed

\* C9: in each generator a failure of a step of the text request (building
\* the text, exporting it, loading it back) is caught: a warning is printed,
\* no exception leaves the generator, and the file written holds the base and
\* the QR pattern without the text.
C9_TextBestEffort ==
    text_result \in TextFailures =>
        /\ pc # "raised"
        /\ raised = "none"
        /\ \E k \in 1..Len(stdout) : stdout[k] = "warning_text"
        /\ pc \in {"write", "returned", "done"}
        /\ Returned =>
              /\ output.path = output_file
              /\ generator = "combined" =>
                    /\ output.kind = "stl"
                    /\ output.mesh = all_triangles
                    /\ NumFaces(output.mesh)
                          = BaseFaces + 12 * Cardinality(Dark(qr_array))
                    /\ \A k \in 1..Len(output.mesh.parts) :
                          output.mesh.parts[k].kind # "text"
              /\ generator \in {"multicolor", "inlay"} =>
                    /\ output.kind = "3mf"
                    /\ Len(output.model.objects[1].triangles) = NumFaces(base_mesh)
                    /\ Len(output.model.objects[2].triangles)
                          = 12 * Cardinality(Dark(qr_array))
                    /\ qr_mesh = BoxMesh(qr_triangles)

C9_Witness ==
    /\ text_result = "export"
    /\ pc = "done"
    /\ generator = "combined"
    /\ output.kind = "stl"
    /\ NumFaces(output.mesh) = kernel_faces + 24

\* C10: in each generator a failure of corner rounding is never fatal:
\* whether the kernel is unavailable or its box, fillet or export step
\* raises, the generator builds a sharp-cornered base with
\* create_box_triangles, of footprint total_width x total_height and the
\* same height, and still produces its output file.
C10_RoundingNeverFatal ==
    /\ raised \notin {"base", "top"}
    /\ (Returned /\ ~CADQUERY_AVAILABLE) =>
          /\ output.kind # "none"
          /\ LET base == IF generator = "combined" THEN all_triangles ELSE base_mesh
             IN  SubSeq(base.tris, 1, 12)
                    = create_box_triangles(R(0), R(0), R(0), total_width,
                                           total_height, base_height)

\* C11: every temp file a generator creates for the exchange with the kernel
\* (rounded base, inlay top layer, text mesh) is deleted by the time the
\* generator returns or raises, on every exit path: no temp file created by
\* the run exists afterwards, also when the export or the load raised.
C11_TempFilesDeleted ==
    pc \in {"returned", "done", "raised"} => tempfiles = {}

\* The coordinates, along one axis, of the boxes the placement loop lays out
\* for the cells of rows 0..N-1 and columns 0..N-1.
BlockCoords(arr, d, z, height, axis) ==
    LET pixel_size  == pixel_size_of(d, arr)
        qr_offset_y == RDiv(RNeg(d.text_area_height), R(2))
        square_size == RMul(pixel_size, Rat(19, 20))
    IN  UNION {BoxCoordsOf(
                   create_box_triangles(cell_x(arr, c[2], pixel_size),
                                        cell_y(arr, c[1], pixel_size, qr_offset_y),
                                        z, square_size, square_size, height),
                   axis) : c \in Cells(arr)}

RMin(S) == CHOOSE a \in S : \A b \in S : RLe(a, b)
RMax(S) == CHOOSE a \in S : \A b \in S : RLe(b, a)
Midpoint(S) == RDiv(RAdd(RMin(S), RMax(S)), R(2))

\* C14: the QR block the placement loop lays out (the region spanned by the
\* boxes of all rows and columns of the bitmap) is centred on the plate
\* region below the text band: the midpoint of its X extent is 0 and the
\* midpoint of its Y extent is -text_band_height/2.
C14_BlockCentred ==
    pc \in {"text", "write", "returned", "done"} =>
        /\ Midpoint(BlockCoords(qr_array, dims, base_height, pattern_height, 1))
              = R(0)
        /\ Midpoint(BlockCoords(qr_array, dims, base_height, pattern_height, 2))
              = RDiv(RNeg(dims.text_area_height), R(2))

\* C15: in the model XML of both packaged generators the ids of the declared
\* resources (materials group, two mesh objects, composite object) are
\* pairwise distinct, every component reference and the build item name a
\* declared object, and the composite's components are exactly the base
\* object and the pattern object.
C15_ResourceIds ==
    (pc \in {"returned", "done"} /\ output.kind = "3mf") =>
        LET m       == output.model
            ids     == <<m.basematerials.id, m.objects[1].id, m.objects[2].id,
                         m.composite.id>>
            objects == {m.objects[1].id, m.objects[2].id, m.composite.id}
        IN  /\ \A a \in 1..4 : \A b \in 1..4 : a # b => ids[a] # ids[b]
            /\ \A k \in 1..Len(m.composite.components) :
                  m.composite.components[k] \in objects
            /\ Len(m.build) = 1 /\ m.build[1] \in objects
            /\ m.composite.components = <<m.objects[1].id, m.objects[2].id>>
            /\ m.objects[1].name = "base_green"
            /\ m.objects[2].name = "qr_white"

(***************************************************************************)
(* Statements about the batch driver.                                      *)
(***************************************************************************)
\* The run of the driver is over: it ended normally or left by an exception.
BatchOver == batch_pc \in {"done", "import_error"}

Lines(kind) == {k \in 1..Len(batch_stdout) : batch_stdout[k].line = kind}

Succeeded == {k \in 1..Len(outcomes) : outcomes[k] = "ok"}

\* C12: a run of the batch driver attempts every url of its list exactly
\* once, in list order, whatever happened to earlier items: a failing item
\* is caught and logged, the driver goes on, and the run ends with the final
\* summary printed.
C12_BatchAttemptsEach ==
    /\ \A k \in 1..Len(attempted) : k <= Len(urls) /\ attempted[k] = urls[k]
    /\ Cardinality(Lines("error")) <= Len(outcomes) - Cardinality(Succeeded)
    /\ BatchOver =>
          /\ attempted = urls
          /\ Cardinality(Lines("error")) = Len(urls) - Cardinality(Succeeded)
          /\ Cardinality(Lines("summary")) = 1
          /\ batch_stdout[Len(batch_stdout)].line = "summary"

\* C13: a run of the batch driver reports, in its final summary, a success
\* count: the summary is printed and the count in it is the number of items
\* whose generation completed without raising.
C13_SummaryCountsSuccesses ==
    BatchOver =>
        /\ Lines("summary") # {}
        /\ \A k \in Lines("summary") :
              batch_stdout[k].n = Cardinality(Succeeded)

=============================================================================
